---- MODULE Spec2Model ----
(***************************************************************************)
(* Model of src/computational_equivalence_engine.py: the three-gate        *)
(* decision tree of ComputationalEquivalenceEngine.analyze, the engine's   *)
(* analysis_log, get_analysis_log and calculate_convergence_vector.        *)
(*                                                                         *)
(* Representation                                                          *)
(*  - a Python str that the code inspects (regulatory_objective) is a      *)
(*    sequence of one-character strings, so that lower() and split() are   *)
(*    computed; a str that the code only builds or passes on (log lines,   *)
(*    rationale, names) is a TLA+ string;                                  *)
(*  - a distance score is an integer number of hundredths (2.5 is 250);    *)
(*  - reliability_rate is an integer number of percent (0.85 is 85);       *)
(*  - an Optional value is a sequence of length 0 (None) or 1;             *)
(*  - a raised exception is the one-element sequence of its class name;    *)
(*  - the arrow character of two log lines is written "->".                *)
(***************************************************************************)
EXTENDS Integers, Sequences, FiniteSets, TLC

VARIABLES
    analysis_log,     \* ComputationalEquivalenceEngine.analysis_log
    concept_a,        \* first argument of the analyze call (drawn / latest)
    concept_b,        \* second argument of the analyze call
    functional_test,  \* Optional[FunctionalTest] argument of the call
    result,           \* Optional: EquivalenceResult returned by the latest analyze
    exc,              \* Optional: exception raised by the latest analyze
    swapped,          \* Optional: outcome of analyze(concept_b, concept_a, t)
    log_text,         \* Optional: str returned by get_analysis_log, when it was the latest operation
    op,               \* name of the latest operation performed
    calls,            \* number of analyze calls made on the engine instance
    d_t1,             \* first argument of calculate_convergence_vector
    d_t2,             \* second argument of calculate_convergence_vector
    vector            \* Optional: tuple returned by calculate_convergence_vector

vars == <<analysis_log, concept_a, concept_b, functional_test, result, exc,
          swapped, log_text, op, calls, d_t1, d_t2, vector>>

-----------------------------------------------------------------------------
(* Python built-ins used by the code *)

\* set(list)
ToSet(s) == {s[i] : i \in 1..Len(s)}

\* max(a, b)
Max(a, b) == IF a >= b THEN a ELSE b

\* str.lower() on one character
LowerChar(c) ==
    CASE c = "A" -> "a"
      [] c = "B" -> "b"
      [] c = "C" -> "c"
      [] OTHER -> c

\* str.lower()
Lower(s) == [i \in 1..Len(s) |-> LowerChar(s[i])]

\* the characters str.split() treats as separators
Whitespace == {" ", "\t", "\n"}

\* set(str.split()): the maximal runs of non-whitespace characters
TokenSet(s) ==
    {SubSeq(s, i, j) : <<i, j>> \in
        {p \in (1..Len(s)) \X (1..Len(s)) :
            /\ p[1] <= p[2]
            /\ \A k \in p[1]..p[2] : s[k] \notin Whitespace
            /\ (p[1] = 1 \/ s[p[1] - 1] \in Whitespace)
            /\ (p[2] = Len(s) \/ s[p[2] + 1] \in Whitespace)}}

\* str(bool) as an f-string prints it
FormatBool(b) == IF b THEN "True" ELSE "False"

\* an f-string's rendering of a score held in hundredths: 200 -> "2.0", 15 -> "0.15"
FormatScore(s) ==
    LET whole == s \div 100
        frac  == s % 100
    IN  ToString(whole) \o "." \o
        (IF frac % 10 = 0 THEN ToString(frac \div 10)
         ELSE IF frac < 10 THEN "0" \o ToString(frac)
         ELSE ToString(frac))

\* f"{reliability_rate * 100:.1f}" for a rate held in whole percent
FormatPercent(r) == ToString(r) \o ".0"

\* "\n".join(lines)
RECURSIVE JoinLines(_)
JoinLines(lines) ==
    IF Len(lines) = 0 THEN ""
    ELSE IF Len(lines) = 1 THEN lines[1]
    ELSE lines[1] \o "\n" \o JoinLines(Tail(lines))

-----------------------------------------------------------------------------
(* The helper of Gate 1 *)

\* Variant of ObjectivesSubstantiallyOverlap that divides by the size of the
\* first token set instead of the larger one.
ObjectivesSubstantiallyOverlap_DivideByFirst(obj_a, obj_b) ==
    LET keywords_a == TokenSet(Lower(obj_a))
        keywords_b == TokenSet(Lower(obj_b))
        denom      == Cardinality(keywords_a)
    IN  IF denom = 0
        THEN [raised |-> TRUE, value |-> FALSE]
        ELSE [raised |-> FALSE,
              value  |-> 2 * Cardinality(keywords_a \cap keywords_b) > denom]

\* _objectives_substantially_overlap: the division raises ZeroDivisionError
\* when both token sets are empty; k/m > 0.5 is 2k > m for these small counts.
ObjectivesSubstantiallyOverlap(obj_a, obj_b) ==
    LET keywords_a == TokenSet(Lower(obj_a))
        keywords_b == TokenSet(Lower(obj_b))
        denom      == Max(Cardinality(keywords_a), Cardinality(keywords_b))
    IN  IF denom = 0
        THEN [raised |-> TRUE, value |-> FALSE]
        ELSE [raised |-> FALSE,
              value  |-> 2 * Cardinality(keywords_a \cap keywords_b) > denom]

\* teleology_match: `or` short-circuits, so the helper runs only when the
\* lower-cased objectives differ.
TeleologyMatch(a, b) ==
    IF Lower(a.regulatory_objective) = Lower(b.regulatory_objective)
    THEN [raised |-> FALSE, value |-> TRUE]
    ELSE ObjectivesSubstantiallyOverlap(a.regulatory_objective,
                                        b.regulatory_objective)

\* morphology_match
MorphologyMatch(a, b) ==
    Cardinality(ToSet(a.constituent_elements) \cap ToSet(b.constituent_elements))

-----------------------------------------------------------------------------
(* GATE 1: _step1_core_feature_filter *)

\* Variant of ProvisionalTier whose Strong tier starts at two shared elements.
ProvisionalTier_StrongFromTwo(morphology_match) ==
    IF morphology_match >= 2
    THEN [provisional_score |-> 200, strength |-> "Strong"]
    ELSE IF morphology_match >= 1
    THEN [provisional_score |-> 250, strength |-> "Standard"]
    ELSE [provisional_score |-> 290, strength |-> "Weak"]

\* the if/elif/else that picks the provisional Partial score
ProvisionalTier(morphology_match) ==
    IF morphology_match >= 3
    THEN [provisional_score |-> 200, strength |-> "Strong"]
    ELSE IF morphology_match >= 1
    THEN [provisional_score |-> 250, strength |-> "Standard"]
    ELSE [provisional_score |-> 290, strength |-> "Weak"]

\* Returns the dict of the gate together with the log it leaves behind; when
\* the teleology check raises, only the header line has been appended.
Step1CoreFeatureFilter(log, a, b) ==
    LET log1  == Append(log, "=== STEP 1: PARTIAL EQUIVALENCY TEST ===")
        morphology_match == MorphologyMatch(a, b)
        tele  == TeleologyMatch(a, b)
        log2  == log1 \o
                 << "Morphological overlap: " \o ToString(morphology_match)
                        \o " shared elements",
                    "Teleological match: " \o FormatBool(tele.value) >>
        tier  == ProvisionalTier(morphology_match)
    IN  IF tele.raised
        THEN [raised |-> TRUE, log |-> log1]
        ELSE IF morphology_match = 0 /\ ~tele.value
        THEN [raised            |-> FALSE,
              log               |-> Append(log2,
                  "RESULT: No basis for comparison (Category Error)"),
              classification    |-> "NO_DIRECT",
              provisional_score |-> 300,
              rationale         |->
                  "Concepts share neither structural elements nor regulatory objectives."]
        ELSE [raised            |-> FALSE,
              log               |-> log2 \o
                  << "RESULT: " \o tier.strength
                        \o " Partial Equivalent (provisional d = "
                        \o FormatScore(tier.provisional_score) \o ")",
                     "-> Proceeding to Step 2" >>,
              classification    |-> "PARTIAL",
              provisional_score |-> tier.provisional_score,
              morphology_match  |-> morphology_match,
              teleology_match   |-> tele.value,
              rationale         |-> tier.strength
                  \o " feature overlap detected (" \o ToString(morphology_match)
                  \o " structural + teleological alignment)"]

-----------------------------------------------------------------------------
(* GATE 2: _step2_same_outcome_filter *)

\* Variant of FunctionalTier that tests the Standard rule before the Strong ones.
FunctionalTier_StandardFirst(t) ==
    IF t.reliability_rate > 90
    THEN [functional_score |-> 100, strength |-> "Standard", interval |-> "0.5-1.4"]
    ELSE [functional_score |-> 170, strength |-> "Weak", interval |-> "1.5-1.9"]

\* Variant of FunctionalTier with the Standard and Weak scores exchanged.
FunctionalTier_StandardWeakExchanged(t) ==
    IF t.reliability_rate > 95 /\ t.procedural_friction = "low"
          /\ t.iteration_threshold = 1
    THEN [functional_score |-> 15, strength |-> "Strong (Constitutional)",
          interval |-> "0.1-0.2"]
    ELSE IF t.reliability_rate > 95 /\ t.procedural_friction = "high"
    THEN [functional_score |-> 35, strength |-> "Strong (Plenary)",
          interval |-> "0.3-0.4"]
    ELSE IF t.reliability_rate > 90
    THEN [functional_score |-> 170, strength |-> "Weak", interval |-> "1.5-1.9"]
    ELSE [functional_score |-> 100, strength |-> "Standard", interval |-> "0.5-1.4"]

\* the if/elif/elif/else that assigns the functional score, first match wins
FunctionalTier(t) ==
    IF t.reliability_rate > 95 /\ t.procedural_friction = "low"
          /\ t.iteration_threshold = 1
    THEN [functional_score |-> 15, strength |-> "Strong (Constitutional)",
          interval |-> "0.1-0.2"]
    ELSE IF t.reliability_rate > 95 /\ t.procedural_friction = "high"
    THEN [functional_score |-> 35, strength |-> "Strong (Plenary)",
          interval |-> "0.3-0.4"]
    ELSE IF t.reliability_rate > 90
    THEN [functional_score |-> 100, strength |-> "Standard", interval |-> "0.5-1.4"]
    ELSE [functional_score |-> 170, strength |-> "Weak", interval |-> "1.5-1.9"]

Step2SameOutcomeFilter(log, t) ==
    LET log1 == log \o
            << "\n=== STEP 2: FUNCTIONAL EQUIVALENCY TEST ===",
               "Fact pattern: " \o t.fact_pattern,
               "Reliability rate: " \o FormatPercent(t.reliability_rate) \o "%",
               "Procedural friction: " \o t.procedural_friction >>
        tier == FunctionalTier(t)
    IN  IF t.reliability_rate < 85
        THEN [outcomes_converge |-> FALSE,
              log       |-> Append(log1, "RESULT: Outcomes diverge (reliability < 85%)"),
              rationale |-> "Reliability rate (" \o FormatPercent(t.reliability_rate)
                                \o "%) below functional threshold"]
        ELSE [outcomes_converge |-> TRUE,
              log       |-> log1 \o
                  << "RESULT: Outcomes converge - " \o tier.strength
                        \o " Functional Equivalent (d = "
                        \o FormatScore(tier.functional_score) \o ")",
                     "-> Proceeding to Step 3" >>,
              functional_score |-> tier.functional_score,
              strength  |-> tier.strength,
              interval  |-> tier.interval,
              rationale |-> tier.strength \o " functional match (reliability "
                                \o FormatPercent(t.reliability_rate) \o "%, "
                                \o t.procedural_friction \o " friction)"]

-----------------------------------------------------------------------------
(* GATE 3: _step3_perfect_substitution_filter *)

\* Variant of AllElementsMatch that compares the lists, not the sets.
AllElementsMatch_ListEquality(a, b) ==
    a.constituent_elements = b.constituent_elements

AllElementsMatch(a, b) ==
    ToSet(a.constituent_elements) = ToSet(b.constituent_elements)

\* Variant of ObjectivesIdentical that ignores case, as Gate 1 does.
ObjectivesIdentical_IgnoreCase(a, b) ==
    Lower(a.regulatory_objective) = Lower(b.regulatory_objective)

ObjectivesIdentical(a, b) ==
    a.regulatory_objective = b.regulatory_objective

ZeroFriction(t) == t.procedural_friction = "low"

Step3PerfectSubstitutionFilter(log, a, b, t) ==
    LET all_elements_match   == AllElementsMatch(a, b)
        objectives_identical == ObjectivesIdentical(a, b)
        zero_friction        == ZeroFriction(t)
        log1 == log \o
            << "\n=== STEP 3: TOTAL EQUIVALENCY TEST ===",
               "All elements identical: " \o FormatBool(all_elements_match),
               "Objectives identical: " \o FormatBool(objectives_identical),
               "Zero procedural friction: " \o FormatBool(zero_friction) >>
    IN  IF all_elements_match /\ objectives_identical /\ zero_friction
        THEN [perfect_substitution |-> TRUE,
              log       |-> Append(log1,
                  "RESULT: Perfect substitution confirmed (Total Equivalent)"),
              rationale |->
                  "Concepts are superimposable - perfect one-to-one match in all dimensions"]
        ELSE [perfect_substitution |-> FALSE,
              log       |-> Append(log1,
                  "RESULT: Doctrinal divergence detected (not Total Equivalent)"),
              rationale |->
                  "Concepts achieve same outcome but remain doctrinally distinct"]

-----------------------------------------------------------------------------
(* Finalizers *)

EquivalenceResult(score, level, interval, rationale, step) ==
    [distance_score      |-> score,
     level               |-> level,
     confidence_interval |-> interval,
     rationale           |-> rationale,
     step_reached        |-> step]

FinalizePartialEquivalent(score, rationale) ==
    LET tier == IF score <= 210
                THEN [level |-> "PARTIAL_STRONG", interval |-> "2.0-2.1"]
                ELSE IF score <= 270
                THEN [level |-> "PARTIAL_STANDARD", interval |-> "2.2-2.7"]
                ELSE [level |-> "PARTIAL_WEAK", interval |-> "2.8-2.9"]
    IN  EquivalenceResult(score, tier.level, "d = " \o tier.interval,
            rationale \o " (Structural overlap but functional divergence)", 2)

\* Variant of FinalizeFunctionalEquivalent whose Strong level reaches up to 1.4.
FinalizeFunctionalEquivalent_WideStrong(score, rationale) ==
    LET tier == IF score <= 140
                THEN [level |-> "FUNCTIONAL_STRONG", interval |-> "0.1-0.4"]
                ELSE [level |-> "FUNCTIONAL_WEAK", interval |-> "1.5-1.9"]
    IN  EquivalenceResult(score, tier.level, "d = " \o tier.interval,
            rationale \o " (Same practical outcome despite formal differences)", 3)

FinalizeFunctionalEquivalent(score, rationale) ==
    LET tier == IF score <= 40
                THEN [level |-> "FUNCTIONAL_STRONG", interval |-> "0.1-0.4"]
                ELSE IF score <= 140
                THEN [level |-> "FUNCTIONAL_STANDARD", interval |-> "0.5-1.4"]
                ELSE [level |-> "FUNCTIONAL_WEAK", interval |-> "1.5-1.9"]
    IN  EquivalenceResult(score, tier.level, "d = " \o tier.interval,
            rationale \o " (Same practical outcome despite formal differences)", 3)

-----------------------------------------------------------------------------
(* analyze *)

\* Variant of ResetLog that keeps the lines of earlier calls.
ResetLog_Keep(log) == log

\* self.analysis_log = []
ResetLog(log) == << >>

\* The whole of analyze, run on an engine whose log is `log`: the log it
\* leaves, and either the result it returns or the exception it raises.
AnalyzeRun(log, a, b, t) ==
    LET step1 == Step1CoreFeatureFilter(ResetLog(log), a, b)
        step2 == Step2SameOutcomeFilter(step1.log, t[1])
        step3 == Step3PerfectSubstitutionFilter(step2.log, a, b, t[1])
    IN  IF step1.raised
        THEN [log |-> step1.log, result |-> << >>, exc |-> <<"ZeroDivisionError">>]
        ELSE IF step1.classification = "NO_DIRECT"
        THEN [log    |-> step1.log,
              result |-> << EquivalenceResult(300, "NO_DIRECT", "d = 3.0",
                                              step1.rationale, 1) >>,
              exc    |-> << >>]
        ELSE IF t = << >>
        THEN [log    |-> step1.log,
              result |-> << FinalizePartialEquivalent(step1.provisional_score,
                                                      step1.rationale) >>,
              exc    |-> << >>]
        ELSE IF ~step2.outcomes_converge
        THEN [log    |-> step2.log,
              result |-> << FinalizePartialEquivalent(step1.provisional_score,
                                                      step2.rationale) >>,
              exc    |-> << >>]
        ELSE IF step3.perfect_substitution
        THEN [log    |-> step3.log,
              result |-> << EquivalenceResult(0, "TOTAL", "d = 0.0",
                                              step3.rationale, 3) >>,
              exc    |-> << >>]
        ELSE [log    |-> step3.log,
              result |-> << FinalizeFunctionalEquivalent(step2.functional_score,
                                                         step2.rationale) >>,
              exc    |-> << >>]

\* get_analysis_log
GetAnalysisLogText(log) == JoinLines(log)

-----------------------------------------------------------------------------
(* calculate_convergence_vector *)

\* A Python float: a finite value held as a whole number of quarters (all of
\* which a double represents and subtracts exactly), an infinity or NaN.
Finite(q) == [kind |-> "finite", q |-> q]
PosInf    == [kind |-> "inf", q |-> 1]
NegInf    == [kind |-> "inf", q |-> -1]
NaN       == [kind |-> "nan", q |-> 0]

\* d_t1 - d_t2 in IEEE-754 arithmetic
FloatSub(x, y) ==
    IF x.kind = "nan" \/ y.kind = "nan" THEN NaN
    ELSE IF x.kind = "inf" /\ y.kind = "inf"
         THEN (IF x.q = y.q THEN NaN ELSE x)
    ELSE IF x.kind = "inf" THEN x
    ELSE IF y.kind = "inf" THEN [kind |-> "inf", q |-> -y.q]
    ELSE Finite(x.q - y.q)

\* v > 0, v < 0, v == 0: every comparison with NaN is False
FloatGtZero(v) == v.kind /= "nan" /\ v.q > 0
FloatLtZero(v) == v.kind /= "nan" /\ v.q < 0
FloatEqZero(v) == v.kind = "finite" /\ v.q = 0

\* abs(v) >= 1.5, which is six quarters
AbsAtLeastOnePointFive(v) ==
    \/ v.kind = "inf"
    \/ v.kind = "finite" /\ (v.q >= 6 \/ v.q <= -6)

\* f"{v:.1f}": a quarter rounds half to even, 0.25 -> "0.2", 0.75 -> "0.8"
FormatOneDecimal(v) ==
    IF v.kind = "nan" THEN "nan"
    ELSE IF v.kind = "inf" THEN (IF v.q > 0 THEN "inf" ELSE "-inf")
    ELSE LET mag   == IF v.q < 0 THEN -v.q ELSE v.q
             digit == CASE mag % 4 = 0 -> "0"
                        [] mag % 4 = 1 -> "2"
                        [] mag % 4 = 2 -> "5"
                        [] OTHER       -> "8"
         IN  (IF v.q < 0 THEN "-" ELSE "") \o ToString(mag \div 4) \o "." \o digit

\* The returned tuple; the interpretation is kept as the parts of its f-string.
CalculateConvergenceVector(x, y) ==
    LET v_legal   == FloatSub(x, y)
        magnitude == IF AbsAtLeastOnePointFive(v_legal) THEN "High" ELSE "Incremental"
    IN  IF FloatGtZero(v_legal)
        THEN << v_legal, << "Legal Convergence", " (+", FormatOneDecimal(v_legal),
                            ") - ", magnitude, " harmonization" >> >>
        ELSE IF FloatLtZero(v_legal)
        THEN << v_legal, << "Legal Divergence", " (", FormatOneDecimal(v_legal),
                            ") - ", magnitude, " drift" >> >>
        ELSE << v_legal, << "Stable Equivalence", " (0.0) - ",
                            "No net change or Feature Shift" >> >>

-----------------------------------------------------------------------------
(* Inputs *)

\* Largest iteration_threshold drawn (N=1, N>=2).
MaxIteration == 2

\* Largest number of analyze calls made on one engine instance in a session.
MaxCalls == 3

\* constituent_elements lists: empty, disjoint, overlapping in one, two and
\* three elements, and set-equal lists that differ in order and repetition.
ElementLists ==
    { << >>,
      << "standing" >>,
      << "consent", "capacity" >>,
      << "capacity", "consent", "consent" >>,
      << "consent", "capacity", "form" >>,
      << "form", "capacity", "consent", "standing" >> }

\* regulatory_objective strings: empty and whitespace-only, differing in case
\* only, the same words in another order, and word overlaps of 1/2 ("a" with
\* "a b") and 2/3 ("a b" with "a b c").
ObjectiveStrings ==
    { << >>,
      << " " >>,
      << "a" >>,
      << "A" >>,
      << "a", " ", "b" >>,
      << "B", " ", "a" >>,
      << "a", " ", "b", " ", "c" >> }

Concepts ==
    [name                 : {"concept"},
     jurisdiction         : {"jurisdiction"},
     constituent_elements : ElementLists,
     regulatory_objective : ObjectiveStrings]

\* reliability_rate in percent, within the documented range 0.0 to 1.0
ReliabilityRates == {0, 80, 85, 90, 95, 97}

Frictions == {"low", "standard", "high"}

FunctionalTests ==
    [fact_pattern        : {"contested succession"},
     reliability_rate    : ReliabilityRates,
     procedural_friction : Frictions,
     iteration_threshold : 1..MaxIteration]

\* The arguments shown before the first analyze call of a session.
DefaultConcept ==
    [name                 |-> "concept",
     jurisdiction         |-> "jurisdiction",
     constituent_elements |-> << >>,
     regulatory_objective |-> << >>]

\* Optional[FunctionalTest]
OptionalTests == { << >> } \cup { << t >> : t \in FunctionalTests }

\* The smaller input sets of a session of several calls on one engine.
SessionConcepts ==
    { c \in Concepts :
        /\ c.constituent_elements \in
              { << "standing" >>, << "consent", "capacity", "form" >> }
        /\ c.regulatory_objective \in { << >>, << " " >>, << "a", " ", "b" >> } }

SessionTests ==
    { << >> } \cup
    { << t >> : t \in { u \in FunctionalTests :
                          /\ u.reliability_rate \in {80, 97}
                          /\ u.procedural_friction \in {"low", "high"}
                          /\ u.iteration_threshold = 1 } }

\* float arguments: -1.0 to 4.0 in quarters, the infinities and NaN
Floats == { Finite(q) : q \in -4..16 } \cup { PosInf, NegInf, NaN }

-----------------------------------------------------------------------------
(* The engine as a state machine *)

\* __init__, with nothing called yet
EngineFresh ==
    /\ analysis_log = << >>
    /\ result = << >>
    /\ exc = << >>
    /\ swapped = << >>
    /\ log_text = << >>
    /\ op = "init"
    /\ calls = 0

VectorIdle ==
    /\ d_t1 = Finite(0)
    /\ d_t2 = Finite(0)
    /\ vector = << >>

\* One analyze call on arguments drawn beforehand.
Init ==
    /\ concept_a \in Concepts
    /\ concept_b \in Concepts
    /\ functional_test \in OptionalTests
    /\ EngineFresh
    /\ VectorIdle

\* engine.analyze(concept_a, concept_b, functional_test)
Analyze ==
    /\ op = "init"
    /\ LET run == AnalyzeRun(analysis_log, concept_a, concept_b, functional_test)
       IN  /\ analysis_log' = run.log
           /\ result' = run.result
           /\ exc' = run.exc
    /\ op' = "analyze"
    /\ calls' = calls + 1
    /\ UNCHANGED <<concept_a, concept_b, functional_test, swapped, log_text,
                   d_t1, d_t2, vector>>

\* engine.analyze(concept_b, concept_a, functional_test) on the same engine
AnalyzeSwapped ==
    /\ op = "analyze"
    /\ LET run == AnalyzeRun(analysis_log, concept_b, concept_a, functional_test)
       IN  /\ analysis_log' = run.log
           /\ swapped' = << [result |-> run.result, exc |-> run.exc] >>
    /\ op' = "analyze_swapped"
    /\ calls' = calls + 1
    /\ UNCHANGED <<concept_a, concept_b, functional_test, result, exc, log_text,
                   d_t1, d_t2, vector>>

Next == Analyze \/ AnalyzeSwapped

Spec == Init /\ [][Next]_vars

\* A session: any sequence of analyze and get_analysis_log calls on one engine.
InitSession ==
    /\ concept_a = DefaultConcept
    /\ concept_b = DefaultConcept
    /\ functional_test = << >>
    /\ EngineFresh
    /\ VectorIdle

SessionAnalyze ==
    /\ calls < MaxCalls
    /\ \E a \in SessionConcepts, b \in SessionConcepts, t \in SessionTests :
          /\ concept_a' = a
          /\ concept_b' = b
          /\ functional_test' = t
          /\ LET run == AnalyzeRun(analysis_log, a, b, t)
             IN  /\ analysis_log' = run.log
                 /\ result' = run.result
                 /\ exc' = run.exc
    /\ log_text' = << >>
    /\ op' = "analyze"
    /\ calls' = calls + 1
    /\ UNCHANGED <<swapped, d_t1, d_t2, vector>>

\* engine.get_analysis_log()
GetAnalysisLog ==
    /\ log_text' = << GetAnalysisLogText(analysis_log) >>
    /\ op' = "get_analysis_log"
    /\ UNCHANGED <<analysis_log, concept_a, concept_b, functional_test, result,
                   exc, swapped, calls, d_t1, d_t2, vector>>

NextSession == SessionAnalyze \/ GetAnalysisLog

SpecSession == InitSession /\ [][NextSession]_vars

\* calculate_convergence_vector on arguments drawn beforehand.
InitVector ==
    /\ concept_a = DefaultConcept
    /\ concept_b = DefaultConcept
    /\ functional_test = << >>
    /\ EngineFresh
    /\ d_t1 \in Floats
    /\ d_t2 \in Floats
    /\ vector = << >>

CalculateConvergenceVectorCall ==
    /\ op = "init"
    /\ vector' = << CalculateConvergenceVector(d_t1, d_t2) >>
    /\ op' = "calculate_convergence_vector"
    /\ UNCHANGED <<analysis_log, concept_a, concept_b, functional_test, result,
                   exc, swapped, log_text, calls, d_t1, d_t2>>

NextVector == CalculateConvergenceVectorCall

SpecVector == InitVector /\ [][NextVector]_vars

-----------------------------------------------------------------------------
(* What the claims speak of, stated on the arguments of the call *)

\* analyze has run on the drawn arguments.
Called == op \in {"analyze", "analyze_swapped"}

SharedElements ==
    Cardinality(ToSet(concept_a.constituent_elements)
                  \cap ToSet(concept_b.constituent_elements))

ElementSetsEqual ==
    ToSet(concept_a.constituent_elements) = ToSet(concept_b.constituent_elements)

ObjectivesExactlyEqual ==
    concept_a.regulatory_objective = concept_b.regulatory_objective

ObjectivesEqualIgnoringCase ==
    Lower(concept_a.regulatory_objective) = Lower(concept_b.regulatory_objective)

\* The token-overlap ratio of the two objectives exists and exceeds 0.5.
OverlapRatioAboveHalf ==
    LET keywords_a == TokenSet(Lower(concept_a.regulatory_objective))
        keywords_b == TokenSet(Lower(concept_b.regulatory_objective))
        larger     == Max(Cardinality(keywords_a), Cardinality(keywords_b))
    IN  larger > 0 /\ 2 * Cardinality(keywords_a \cap keywords_b) > larger

\* Gate 1 handed the pair on to Gate 2: it neither stopped the call with
\* NO_DIRECT nor ended it with an exception.
PassedGate1 ==
    LET step1 == Step1CoreFeatureFilter(<< >>, concept_a, concept_b)
    IN  ~step1.raised /\ step1.classification = "PARTIAL"

TestSupplied == functional_test /= << >>

\* The sub-range of distance_score that goes with each level, in hundredths.
ScoreInRangeOfLevel(r) ==
    CASE r.level = "TOTAL"               -> r.distance_score = 0
      [] r.level = "FUNCTIONAL_STRONG"   -> r.distance_score \in 10..40
      [] r.level = "FUNCTIONAL_STANDARD" -> r.distance_score \in 50..140
      [] r.level = "FUNCTIONAL_WEAK"     -> r.distance_score \in 150..190
      [] r.level = "PARTIAL_STRONG"      -> r.distance_score \in 200..210
      [] r.level = "PARTIAL_STANDARD"    -> r.distance_score \in 220..270
      [] r.level = "PARTIAL_WEAK"        -> r.distance_score \in 280..290
      [] r.level = "NO_DIRECT"           -> r.distance_score = 300
      [] OTHER                           -> FALSE

\* Every EquivalenceResult returned so far, by either call.
ReturnedResults ==
    ToSet(result) \cup (IF swapped = << >> THEN {} ELSE ToSet(swapped[1].result))

-----------------------------------------------------------------------------
(* Claims about analyze, checked under Spec *)

\* C1: every result analyze returns carries one of the eight levels and a
\* distance_score inside that level's sub-range.
C1_ScoreWithinRangeOfLevel ==
    \A r \in ReturnedResults : ScoreInRangeOfLevel(r)

\* C1 witness: a call with a FunctionalTest has returned a Functional level.
C1_Witness ==
    /\ Called /\ TestSupplied /\ result /= << >>
    /\ result[1].level = "FUNCTIONAL_STANDARD"
    /\ result[1].distance_score = 100

\* C2: analyze has no error path; every call ends by returning an
\* EquivalenceResult and never by raising an exception.
C2_AnalyzeAlwaysReturns ==
    Called => (result /= << >> /\ exc = << >>)

\* C3: a pair with zero shared elements whose objectives are neither equal
\* ignoring case nor overlapping by more than half gets NO_DIRECT, 3.0,
\* "d = 3.0" and step_reached 1, with or without a FunctionalTest.
C3_NoBasisGivesNoDirect ==
    (Called /\ SharedElements = 0 /\ ~ObjectivesEqualIgnoringCase
        /\ ~OverlapRatioAboveHalf)
    => /\ result /= << >>
       /\ result[1].level = "NO_DIRECT"
       /\ result[1].distance_score = 300
       /\ result[1].confidence_interval = "d = 3.0"
       /\ result[1].step_reached = 1

C5_DifferentObjectivesStayFunctional ==
    (Called /\ PassedGate1 /\ ~ObjectivesExactlyEqual /\ TestSupplied
        /\ functional_test[1].reliability_rate > 95
        /\ functional_test[1].procedural_friction = "low"
        /\ functional_test[1].iteration_threshold = 1)
    => /\ result /= << >>
       /\ result[1].level = "FUNCTIONAL_STRONG"
       /\ result[1].level /= "TOTAL"
       /\ result[1].confidence_interval = "d = 0.1-0.4"
       /\ result[1].step_reached = 3

\* C5 witness: the objectives differ in case only and the element sets are
\* equal, so that Gate 1 matched them, and the result is FUNCTIONAL_STRONG.
C5_Witness ==
    /\ Called /\ PassedGate1 /\ ~ObjectivesExactlyEqual /\ TestSupplied
    /\ ObjectivesEqualIgnoringCase /\ ElementSetsEqual
    /\ functional_test[1].reliability_rate > 95
    /\ functional_test[1].procedural_friction = "low"
    /\ functional_test[1].iteration_threshold = 1
    /\ result /= << >> /\ result[1].level = "FUNCTIONAL_STRONG"

\* C6: a pair that passes Gate 1, with no FunctionalTest or one whose
\* reliability is below 0.85, gets step_reached 2 and the Partial level of
\* Gate 1's provisional score: Strong 2.0 for three or more shared elements,
\* Standard 2.5 for one or two, Weak 2.9 for none.
C6_NoConvergenceGivesPartial ==
    (Called /\ PassedGate1
        /\ (~TestSupplied \/ functional_test[1].reliability_rate < 85))
    => /\ result /= << >>
       /\ result[1].step_reached = 2
       /\ IF SharedElements >= 3
          THEN result[1].level = "PARTIAL_STRONG" /\ result[1].distance_score = 200
          ELSE IF SharedElements >= 1
          THEN result[1].level = "PARTIAL_STANDARD" /\ result[1].distance_score = 250
          ELSE result[1].level = "PARTIAL_WEAK" /\ result[1].distance_score = 290

\* C6 witness: a supplied test below the threshold, with high friction, left
\* a pair that shares two elements at PARTIAL_STANDARD.
C6_Witness ==
    /\ Called /\ PassedGate1 /\ TestSupplied
    /\ functional_test[1].reliability_rate = 80
    /\ functional_test[1].procedural_friction = "high"
    /\ SharedElements = 2
    /\ result /= << >> /\ result[1].level = "PARTIAL_STANDARD"

\* The functional score the claim assigns, by first-match precedence.
ClaimedFunctionalScore(t) ==
    IF t.reliability_rate > 95 /\ t.procedural_friction = "low"
          /\ t.iteration_threshold = 1 THEN 15
    ELSE IF t.reliability_rate > 95 /\ t.procedural_friction = "high" THEN 35
    ELSE IF t.reliability_rate > 90 THEN 100
    ELSE 170

\* The level the claim gives each functional score.
ClaimedFunctionalLevel(score) ==
    CASE score = 15  -> "FUNCTIONAL_STRONG"
      [] score = 35  -> "FUNCTIONAL_STRONG"
      [] score = 100 -> "FUNCTIONAL_STANDARD"
      [] OTHER       -> "FUNCTIONAL_WEAK"

C10_AnalyzeIsSymmetric ==
    op = "analyze_swapped" =>
        /\ swapped[1].exc = exc
        /\ Len(swapped[1].result) = Len(result)
        /\ result /= << >> =>
              /\ swapped[1].result[1].distance_score = result[1].distance_score
              /\ swapped[1].result[1].level = result[1].level
              /\ swapped[1].result[1].confidence_interval
                    = result[1].confidence_interval
              /\ swapped[1].result[1].step_reached = result[1].step_reached

\* C10 witness: both orders were run on concepts that differ in elements and
\* in the number of objective words, and Gate 1 did not match the objectives.
C10_Witness ==
    /\ op = "analyze_swapped"
    /\ ~ElementSetsEqual
    /\ SharedElements = 0
    /\ concept_a.regulatory_objective = << "a" >>
    /\ concept_b.regulatory_objective = << "a", " ", "b" >>
    /\ result /= << >> /\ result[1].level = "NO_DIRECT"
    /\ swapped[1].result /= << >>

-----------------------------------------------------------------------------
(* Claim about the log, checked under SpecSession *)

\* The trace the latest analyze call leaves on an engine with an empty log.
TraceOfLatestCall ==
    AnalyzeRun(<< >>, concept_a, concept_b, functional_test).log

C7_LogHoldsLatestTrace ==
    /\ calls > 0 =>
          /\ analysis_log = TraceOfLatestCall
          /\ analysis_log[1] = "=== STEP 1: PARTIAL EQUIVALENCY TEST ==="
    /\ (calls > 0 /\ log_text /= << >>) =>
          log_text[1] = JoinLines(TraceOfLatestCall)

C7_GetLeavesLogAlone ==
    op' = "get_analysis_log" => analysis_log' = analysis_log

\* C7: after any sequence of analyze calls, the log is the trace of the most
\* recent call only, starting with the Step 1 header; get_analysis_log returns
\* its lines joined by newlines and does not change the log.
C7_LogIsTraceOfMostRecentCall ==
    [] C7_LogHoldsLatestTrace /\ [][C7_GetLeavesLogAlone]_vars

\* C7 witness: get_analysis_log ran after the third analyze call, which
\* stopped at Gate 1 and so left a trace shorter than a full one.
C7_Witness ==
    /\ calls = 3
    /\ op = "get_analysis_log"
    /\ result /= << >> /\ result[1].level = "NO_DIRECT"
    /\ Len(analysis_log) = 4
    /\ log_text = << JoinLines(analysis_log) >>

-----------------------------------------------------------------------------
(* Claim about calculate_convergence_vector, checked under SpecVector *)

\* C8: v = d_t1 - d_t2, and the interpretation says Convergence exactly when
\* v > 0, Divergence exactly when v < 0, Stable Equivalence exactly when
\* v = 0, with High exactly when |v| >= 1.5 and Incremental otherwise.
C8_InterpretationMatchesSign ==
    op = "calculate_convergence_vector" =>
        LET v    == vector[1][1]
            text == vector[1][2]
        IN  /\ v = FloatSub(d_t1, d_t2)
            /\ text[1] = "Legal Convergence" <=> FloatGtZero(v)
            /\ text[1] = "Legal Divergence" <=> FloatLtZero(v)
            /\ text[1] = "Stable Equivalence" <=> FloatEqZero(v)
            /\ (FloatGtZero(v) \/ FloatLtZero(v)) =>
                  /\ text[5] = "High" <=> AbsAtLeastOnePointFive(v)
                  /\ text[5] = "Incremental" <=> ~AbsAtLeastOnePointFive(v)

-----------------------------------------------------------------------------
(* Claim about the reliability rate, checked under Spec *)

\* What analyze does on the same concepts and a FunctionalTest that differs
\* from the supplied one in reliability_rate only.
AnalyzeAtRate(rate) ==
    AnalyzeRun(<< >>, concept_a, concept_b,
               << [functional_test[1] EXCEPT !.reliability_rate = rate] >>)

\* C11: with the concept pair, procedural_friction and iteration_threshold
\* held fixed, a FunctionalTest with a reliability_rate at least as high
\* never gets a larger distance_score.
C11_ScoreNeverRisesWithReliability ==
    (Called /\ TestSupplied /\ result /= << >>)
    => \A rate \in ReliabilityRates :
          rate >= functional_test[1].reliability_rate
          => /\ AnalyzeAtRate(rate).result /= << >>
             /\ AnalyzeAtRate(rate).result[1].distance_score
                   <= result[1].distance_score

\* C11 witness: a pair returned 2.5 at reliability 0.80, and the same pair
\* and test get 1.7 at 0.85, 1.0 at 0.95 and 0.35 at 0.97.
C11_Witness ==
    /\ Called /\ TestSupplied /\ result /= << >>
    /\ functional_test[1].reliability_rate = 80
    /\ functional_test[1].procedural_friction = "high"
    /\ result[1].distance_score = 250
    /\ AnalyzeAtRate(85).result[1].distance_score = 170
    /\ AnalyzeAtRate(95).result[1].distance_score = 100
    /\ AnalyzeAtRate(97).result[1].distance_score = 35

====
